---- MODULE Spec2Model ----
(***************************************************************************)
(* Model of cargo's git source (src/cargo/sources/git/source.rs):          *)
(* GitSource::new, ident, canonicalize_url, and the Source/Registry        *)
(* operations update, query, download and fingerprint, run by several      *)
(* processes that share one cache root (the git lock, the databases and    *)
(* the checkouts).                                                         *)
(***************************************************************************)
EXTENDS Integers, Sequences, FiniteSets, TLC

\* ------------------------------------------------------------------ bounds

\* Revisions the remote branch can reach: the remote starts at revision 1 and
\* is pushed to at most MaxRev.
MaxRev == 2

\* The processes (one GitSource each) sharing the cache root.
Procs == {1, 2}

\* Option<T>: None, or Some(x) holding x.
None == <<>>

Some(x) == <<x>>

Revs == 1..MaxRev

\* ------------------------------------------------------- strings and URLs
\* A string is a sequence of one-character strings.

HexDigits == <<"0", "1", "2", "3", "4", "5", "6", "7", "8", "9",
               "a", "b", "c", "d", "e", "f">>

\* GitRevision's Display: the hexadecimal object id.
to_string(r) == <<HexDigits[(r \div 16) + 1], HexDigits[(r % 16) + 1]>>

ends_with(s, suf) ==
    /\ Len(s) >= Len(suf)
    /\ SubSeq(s, Len(s) - Len(suf) + 1, Len(s)) = suf

DotGit == <<".", "g", "i", "t">>

to_lowercase_char(c) ==
    CASE c = "R" -> "r"
      [] c = "A" -> "a"
      [] c = "G" -> "g"
      [] c = "I" -> "i"
      [] c = "T" -> "t"
      [] OTHER -> c

\* Variant: the path is taken as it is spelled.
to_lowercase_kept(s) == s

to_lowercase(s) == [i \in 1..Len(s) |-> to_lowercase_char(s[i])]

\* Position of the last "/" of s, 0 when it has none.
rfind_slash(s) ==
    LET at == {i \in 1..Len(s) : s[i] = "/"}
    IN  IF at = {} THEN 0 ELSE CHOOSE i \in at : \A j \in at : j <= i

\* Url::path_segments().next_back(): what follows the last "/" of the path.
last_segment(path) == SubSeq(path, rfind_slash(path) + 1, Len(path))

\* Variant: the trailing "/" is kept.
pop_if_empty_kept(path) == path

\* PathSegmentsMut::pop_if_empty: drops one trailing "/" unless it is the
\* path's first character.
pop_if_empty(path) ==
    IF Len(path) > 1 /\ path[Len(path)] = "/"
    THEN SubSeq(path, 1, Len(path) - 1)
    ELSE path

\* PathSegmentsMut::pop: truncates the path before the last "/" that follows
\* the first character (to "/" when there is none).
pop(path) ==
    LET rest == SubSeq(path, 2, Len(path))
        k    == rfind_slash(rest)
    IN  IF k = 0 THEN <<"/">> ELSE SubSeq(path, 1, k)

\* PathSegmentsMut::push: "." and ".." are skipped; a "/" separates the new
\* segment from what is already there.
push(path, seg) ==
    IF seg = <<".">> \/ seg = <<".", ".">> THEN path
    ELSE (IF Len(path) > 1 THEN path \o <<"/">> ELSE path) \o seg

\* Variant: the scheme is left as it was.
set_scheme_kept(url, scheme) == url

\* Url::set_scheme
set_scheme(url, scheme) == [url EXCEPT !.scheme = scheme]

\* Url::set_path: the path of a URL with a host starts with "/" (one is put
\* in front of a path that does not); a path parsed before only changed in
\* case is otherwise taken as it is.
set_path(url, path) ==
    [url EXCEPT !.path = IF path # <<>> /\ path[1] = "/"
                         THEN path
                         ELSE <<"/">> \o path]

canonicalize_url(url) ==
    LET u1 == IF ends_with(url.path, <<"/">>)
              THEN [url EXCEPT !.path = pop_if_empty(url.path)]
              ELSE url
        u2 == IF u1.host = "github.com"
              THEN LET https == set_scheme(u1, "https")
                   IN  set_path(https, to_lowercase(https.path))
              ELSE u1
        needs_chopping == ends_with(u2.path, DotGit)
        last == LET l == last_segment(u2.path)
                IN  SubSeq(l, 1, Len(l) - 4)
    IN  IF needs_chopping
        THEN [u2 EXCEPT !.path = push(pop(u2.path), last)]
        ELSE u2

\* util::hex::short_hash of the canonical URL: taken as collision free, a
\* string that is different for different URLs (scheme and host are one
\* element each).
short_hash(url) == <<url.scheme, ":", "/", "/", url.host>> \o url.path

\* Variant: no placeholder for an empty last segment.
EmptyTag_blank == <<>>

EmptyTag == <<"_", "e", "m", "p", "t", "y">>

\* ident(): format!("{}-{}", ident, short_hash(&url)) with the last path
\* segment of the canonical URL ("" when path_segments() is None or the
\* last segment is empty, replaced by "_empty").
ident(url) ==
    LET canon == canonicalize_url(url)
        seg   == last_segment(canon.path)
        tag   == IF seg = <<>> THEN EmptyTag ELSE seg
    IN  tag \o <<"-">> \o short_hash(canon)

\* ------------------------------------------------------------- source ids

Main == <<"m", "a", "i", "n">>

Branch(s) == [kind |-> "Branch", name |-> s]

Tag(s) == [kind |-> "Tag", name |-> s]

Rev(s) == [kind |-> "Rev", name |-> s]

UrlRag == [scheme |-> "https", host |-> "github.com",
           path |-> <<"/", "R", "a", "g">>]

UrlRagGit == [scheme |-> "git", host |-> "github.com",
              path |-> <<"/", "r", "a", "g", ".", "g", "i", "t">>]

SourceId(u, r, pr) == [url |-> u, git_reference |-> r, precise |-> pr]

\* The git source ids the processes are constructed from, all of one
\* repository (under two spellings of its URL): a branch with and without a
\* precise revision (one the remote has from the start, one it gets only
\* when pushed to), a tag named like the branch, and an explicit revision.
SourceIdList ==
    << SourceId(UrlRag, Branch(Main), None),
       SourceId(UrlRagGit, Branch(Main), Some(to_string(1))),
       SourceId(UrlRag, Branch(Main), Some(to_string(2))),
       SourceId(UrlRag, Tag(Main), None),
       SourceId(UrlRagGit, Rev(to_string(2)), None) >>

SourceIds == {SourceIdList[i] : i \in 1..Len(SourceIdList)}

\* SourceId::with_precise
with_precise(sid, pr) == [sid EXCEPT !.precise = pr]

Idents == {ident(sid.url) : sid \in SourceIds}

\* Variant: new() takes the symbolic reference also when a precise revision
\* is present.
GitSource_new_symbolic(source_id) ==
    [ source_id   |-> source_id,
      reference   |-> source_id.git_reference,
      path_source |-> None,
      rev         |-> None,
      ident       |-> ident(source_id.url) ]

\* GitSource::new
GitSource_new(source_id) ==
    [ source_id   |-> source_id,
      reference   |-> IF source_id.precise # None
                      THEN Rev(source_id.precise[1])
                      ELSE source_id.git_reference,
      path_source |-> None,
      rev         |-> None,
      ident       |-> ident(source_id.url) ]

\* update(): the database and checkout paths under the cache root
\* (lock.parent()).
db_path(self) == <<"db", self.ident>>

reference_path(self) == self.source_id.git_reference.name

checkout_path(self) == <<"checkouts", self.ident, reference_path(self)>>

CheckoutPaths == {checkout_path(GitSource_new(sid)) : sid \in SourceIds}

DbPaths == {db_path(GitSource_new(sid)) : sid \in SourceIds}

\* ------------------------------------------------------------------ state

VARIABLES
    remote,     \* remote repository of each identity: the head of its branch
    db,         \* database at each db path: 0 when absent, else its newest revision
    checkout,   \* checkout directory at each checkout path
    lock,       \* the processes holding the cache root's git lock
    gs,         \* each process's GitSource
    pc,         \* each process's position
    frame,      \* the locals of each process's running update()
    ret,        \* the call that ended last: whose, which, and how
    ok_updates  \* whether an update() of the process has returned Ok

vars == <<remote, db, checkout, lock, gs, pc, frame, ret, ok_updates>>

\* A checkout directory: the revision copied into it (0 when the directory
\* is absent) and whether that copy is complete.
NoCheckout == [rev |-> 0, complete |-> FALSE]

NoFrame == [actual_rev |-> None, should_update |-> FALSE, fetched |-> FALSE,
            rev |-> None]

NoRet == [proc |-> 0, op |-> "none", outcome |-> "none", arg |-> "none",
          val |-> None, fetched |-> FALSE]

\* The state after each process has constructed its GitSource from one of
\* the source ids numbered in `choices`.
InitWith(choices) ==
    /\ remote = [i \in Idents |-> 1]
    /\ db = [d \in DbPaths |-> 0]
    /\ checkout = [c \in CheckoutPaths |-> NoCheckout]
    /\ lock = {}
    /\ \E choice \in [Procs -> choices] :
         \* the processes are interchangeable: one order of each choice
         /\ \A p, q \in Procs : p < q => choice[p] <= choice[q]
         /\ gs = [p \in Procs |-> GitSource_new(SourceIdList[choice[p]])]
    /\ pc = [p \in Procs |-> "idle"]
    /\ frame = [p \in Procs |-> NoFrame]
    /\ ret = NoRet
    /\ ok_updates = [p \in Procs |-> FALSE]

Init == InitWith(1..Len(SourceIdList))

\* ---------------------------------------------------------- collaborators

\* The remote repository: branch main is at its head, a tag named main at
\* revision 1, and it holds revisions 1..head. A database that was fetched
\* when the head was d holds the same for d.
rev_for(d, reference) ==
    CASE reference.kind = "Branch" ->
             IF d >= 1 /\ reference.name = Main THEN Some(d) ELSE None
      [] reference.kind = "Tag" ->
             IF d >= 1 /\ reference.name = Main THEN Some(1) ELSE None
      [] OTHER ->
             LET found == {r \in 1..d : to_string(r) = reference.name}
             IN  IF found = {} THEN None ELSE Some(CHOOSE r \in found : TRUE)

\* Another push to the branch of a remote some process uses.
RemotePush(i) ==
    /\ \E p \in Procs : gs[p].ident = i
    /\ remote[i] < MaxRev
    /\ remote' = [remote EXCEPT ![i] = @ + 1]
    /\ UNCHANGED <<db, checkout, lock, gs, pc, frame, ret, ok_updates>>

\* ----------------------------------------------------------------- update

\* Variant: the lock is given up only by a return of Ok.
lock_leaked_on_error(p, outcome) == IF outcome = "Ok" THEN lock \ {p} ELSE lock

\* The git lock after update() returned: `lock` is a local of update() and
\* is dropped wherever the function is left.
lock_dropped(p, outcome) == lock \ {p}

\* update() returns `outcome`; `fetched` tells whether the call went to the
\* remote.
Return(p, outcome, fetched) ==
    /\ pc' = [pc EXCEPT ![p] = "idle"]
    /\ lock' = lock_dropped(p, outcome)
    /\ ret' = [proc |-> p, op |-> "update", outcome |-> outcome,
               arg |-> "none", val |-> None, fetched |-> fetched]
    /\ frame' = [frame EXCEPT ![p] = NoFrame]
    /\ ok_updates' = [ok_updates EXCEPT ![p] = @ \/ outcome = "Ok"]

update_call(p) ==
    /\ pc[p] = "idle"
    /\ pc' = [pc EXCEPT ![p] = "lock_git"]
    /\ frame' = [frame EXCEPT ![p] = NoFrame]
    /\ ret' = IF ret.proc = p THEN NoRet ELSE ret
    /\ UNCHANGED <<remote, db, checkout, lock, gs, ok_updates>>

\* Variant: lock_git() grants the lock whoever holds it.
lock_git_shared(p) ==
    /\ pc[p] = "lock_git"
    /\ lock' = lock \cup {p}
    /\ pc' = [pc EXCEPT ![p] = "rev_for"]
    /\ UNCHANGED <<remote, db, checkout, gs, frame, ret, ok_updates>>

\* config.lock_git() grants the lock once nobody holds it.
lock_git(p) ==
    /\ pc[p] = "lock_git"
    /\ lock = {}
    /\ lock' = {p}
    /\ pc' = [pc EXCEPT ![p] = "rev_for"]
    /\ UNCHANGED <<remote, db, checkout, gs, frame, ret, ok_updates>>

\* Variant: a failed lock_git() forgets the bound reader and revision.
lock_git_err_reset(p) ==
    /\ pc[p] = "lock_git"
    /\ Return(p, "LockUnavailable", FALSE)
    /\ gs' = [gs EXCEPT ![p].path_source = None, ![p].rev = None]
    /\ UNCHANGED <<remote, db, checkout>>

\* config.lock_git() fails: try! returns the error.
lock_git_err(p) ==
    /\ pc[p] = "lock_git"
    /\ Return(p, "LockUnavailable", FALSE)
    /\ UNCHANGED <<remote, db, checkout, gs>>

\* Variants: update only when the resolution failed; update always.
should_update_on_miss(actual_rev, precise) == actual_rev = None

should_update_always(actual_rev, precise) == TRUE

should_update(actual_rev, precise) == actual_rev = None \/ precise = None

\* remote.rev_for(&db_path, &reference) and the decision to update.
resolve(p) ==
    /\ pc[p] = "rev_for"
    /\ LET self == gs[p]
           actual_rev == rev_for(db[db_path(self)], self.reference)
           su == should_update(actual_rev, self.source_id.precise)
       IN  /\ frame' = [frame EXCEPT ![p].actual_rev = actual_rev,
                                     ![p].should_update = su]
           /\ pc' = [pc EXCEPT ![p] = IF su THEN "checkout" ELSE "db_at"]
    /\ UNCHANGED <<remote, db, checkout, lock, gs, ret, ok_updates>>

\* config.shell().status("Updating", ..) fails: try! returns the error.
shell_status_err(p) ==
    /\ pc[p] = "checkout"
    /\ Return(p, "ShellFailure", FALSE)
    /\ UNCHANGED <<remote, db, checkout, gs>>

\* remote.checkout(&db_path, ..): clones or fetches the remote into the
\* database.
remote_checkout(p) ==
    /\ pc[p] = "checkout"
    /\ db' = [db EXCEPT ![db_path(gs[p])] = remote[gs[p].ident]]
    /\ frame' = [frame EXCEPT ![p].fetched = TRUE]
    /\ pc' = [pc EXCEPT ![p] = "repo_rev_for"]
    /\ UNCHANGED <<remote, checkout, lock, gs, ret, ok_updates>>

\* remote.checkout fails (network, authentication): the database is as it
\* was; try! returns the error.
remote_checkout_err(p) ==
    /\ pc[p] = "checkout"
    /\ Return(p, "RemoteAccessFailure", TRUE)
    /\ UNCHANGED <<remote, db, checkout, gs>>

\* Variant: the revision resolved before the fetch is kept when there is one.
rev_before_fetch(actual_rev, rev) ==
    IF actual_rev # None THEN actual_rev ELSE rev

\* The revision update() goes on with after a fetch: the one resolved
\* against the fetched database, `rev` of (repo, rev).
rev_after_fetch(actual_rev, rev) == rev

\* repo.rev_for(&reference) on the database just fetched.
repo_rev_for(p) ==
    /\ pc[p] = "repo_rev_for"
    /\ LET self == gs[p]
           rev  == rev_for(db[db_path(self)], self.reference)
       IN  IF rev = None
           THEN /\ Return(p, "ResolutionFailure", frame[p].fetched)
                /\ UNCHANGED <<remote, db, checkout, gs>>
           ELSE /\ frame' = [frame EXCEPT ![p].rev =
                                 rev_after_fetch(frame[p].actual_rev, rev)]
                /\ pc' = [pc EXCEPT ![p] = "copy_to"]
                /\ UNCHANGED <<remote, db, checkout, lock, gs, ret,
                               ok_updates>>

\* remote.db_at(&db_path) opens the database; actual_rev.unwrap() is the
\* revision resolved before.
db_at(p) ==
    /\ pc[p] = "db_at"
    /\ frame' = [frame EXCEPT ![p].rev = frame[p].actual_rev]
    /\ pc' = [pc EXCEPT ![p] = "copy_to"]
    /\ UNCHANGED <<remote, db, checkout, lock, gs, ret, ok_updates>>

db_at_err(p) ==
    /\ pc[p] = "db_at"
    /\ Return(p, "DatabaseFailure", frame[p].fetched)
    /\ UNCHANGED <<remote, db, checkout, gs>>

\* repo.copy_to(actual_rev, &checkout_path, ..): the checkout directory
\* becomes a complete copy of the revision.
copy_to(p) ==
    /\ pc[p] = "copy_to"
    /\ checkout' = [checkout EXCEPT ![checkout_path(gs[p])] =
                        [rev |-> frame[p].rev[1], complete |-> TRUE]]
    /\ pc' = [pc EXCEPT ![p] = "bind"]
    /\ UNCHANGED <<remote, db, lock, gs, frame, ret, ok_updates>>

\* repo.copy_to fails, before it wrote anything or part way through the
\* copy; try! returns the error.
copy_to_err(p) ==
    /\ pc[p] = "copy_to"
    /\ \E written \in BOOLEAN :
         checkout' = IF written
                     THEN [checkout EXCEPT ![checkout_path(gs[p])] =
                              [rev |-> frame[p].rev[1], complete |-> FALSE]]
                     ELSE checkout
    /\ Return(p, "CopyFailure", frame[p].fetched)
    /\ UNCHANGED <<remote, db, gs>>

\* Variant: update() binds the package reader and leaves the revision for
\* the next call.
bind_reader_only(p, updated) ==
    /\ pc[p] = "bind"
    /\ LET self == gs[p]
           actual_rev == frame[p].rev[1]
           source_id == with_precise(self.source_id,
                                     Some(to_string(actual_rev)))
           path_source == [path |-> checkout_path(self),
                           source_id |-> source_id,
                           updated |-> updated]
       IN  gs' = [gs EXCEPT ![p].path_source = Some(path_source)]
    /\ Return(p, IF updated THEN "Ok" ELSE "PackageReaderFailure",
              frame[p].fetched)
    /\ UNCHANGED <<remote, db, checkout>>

\* PathSource::new_recursive over the checkout, self.path_source and
\* self.rev are set, then the result of path_source.update() is returned.
bind(p, updated) ==
    /\ pc[p] = "bind"
    /\ LET self == gs[p]
           actual_rev == frame[p].rev[1]
           source_id == with_precise(self.source_id,
                                     Some(to_string(actual_rev)))
           path_source == [path |-> checkout_path(self),
                           source_id |-> source_id,
                           updated |-> updated]
       IN  gs' = [gs EXCEPT ![p].path_source = Some(path_source),
                            ![p].rev = Some(actual_rev)]
    /\ Return(p, IF updated THEN "Ok" ELSE "PackageReaderFailure",
              frame[p].fetched)
    /\ UNCHANGED <<remote, db, checkout>>

update(p) ==
    \/ update_call(p)
    \/ lock_git(p)
    \/ lock_git_err(p)
    \/ resolve(p)
    \/ shell_status_err(p)
    \/ remote_checkout(p)
    \/ remote_checkout_err(p)
    \/ repo_rev_for(p)
    \/ db_at(p)
    \/ db_at_err(p)
    \/ copy_to(p)
    \/ copy_to_err(p)
    \/ \E updated \in BOOLEAN : bind(p, updated)

\* ------------------------------------------------- query, download, fingerprint

Dependencies == {"dep"}

PackageIds == {"id"}

Packages == {"pkgA", "pkgB"}

Panic(p, op, arg) ==
    /\ pc' = [pc EXCEPT ![p] = "panicked"]
    /\ ret' = [proc |-> p, op |-> op, outcome |-> "panic", arg |-> arg,
               val |-> None, fetched |-> FALSE]

\* The call `op` of the bound package reader returns Ok or its own error.
Delegate(p, op, arg) ==
    /\ \E ok \in BOOLEAN :
         ret' = [proc |-> p, op |-> op,
                 outcome |-> IF ok THEN "Ok" ELSE "PackageReaderFailure",
                 arg |-> arg, val |-> None, fetched |-> FALSE]
    /\ UNCHANGED pc

\* Variant: query() without a package reader returns an empty list.
query_or_empty(p, dep) ==
    /\ pc[p] = "idle"
    /\ ret' = [proc |-> p, op |-> "query", outcome |-> "Ok", arg |-> dep,
               val |-> None, fetched |-> FALSE]
    /\ UNCHANGED <<remote, db, checkout, lock, gs, pc, frame, ok_updates>>

query(p, dep) ==
    /\ pc[p] = "idle"
    /\ IF gs[p].path_source = None
       THEN Panic(p, "query", dep)
       ELSE Delegate(p, "query", dep)
    /\ UNCHANGED <<remote, db, checkout, lock, gs, frame, ok_updates>>

download(p, id) ==
    /\ pc[p] = "idle"
    /\ IF gs[p].path_source = None
       THEN Panic(p, "download", id)
       ELSE Delegate(p, "download", id)
    /\ UNCHANGED <<remote, db, checkout, lock, gs, frame, ok_updates>>

\* Variant: fingerprint() reads the revision of the checkout directory.
fingerprint_of_checkout(p, pkg) ==
    /\ pc[p] = "idle"
    /\ IF gs[p].rev = None
       THEN Panic(p, "fingerprint", pkg)
       ELSE /\ ret' = [proc |-> p, op |-> "fingerprint", outcome |-> "Ok",
                       arg |-> pkg,
                       val |-> Some(to_string(
                                  checkout[checkout_path(gs[p])].rev)),
                       fetched |-> FALSE]
            /\ UNCHANGED pc
    /\ UNCHANGED <<remote, db, checkout, lock, gs, frame, ok_updates>>

fingerprint(p, pkg) ==
    /\ pc[p] = "idle"
    /\ IF gs[p].rev = None
       THEN Panic(p, "fingerprint", pkg)
       ELSE /\ ret' = [proc |-> p, op |-> "fingerprint", outcome |-> "Ok",
                       arg |-> pkg, val |-> Some(to_string(gs[p].rev[1])),
                       fetched |-> FALSE]
            /\ UNCHANGED pc
    /\ UNCHANGED <<remote, db, checkout, lock, gs, frame, ok_updates>>

\* ------------------------------------------------------------ read_packages

\* read_packages() without a package reader: `try!(self.update())`. The
\* call goes through update()'s steps; try! returns update()'s error, and
\* after Ok (the package reader is bound then) the call goes on with
\* read_packages_reader.
read_packages_update(p) ==
    /\ gs[p].path_source = None
    /\ update_call(p)

\* self.path_source.as_mut().unwrap().read_packages(): the package reader's
\* own result, when there is a package reader.
read_packages_reader(p) ==
    /\ pc[p] = "idle"
    /\ gs[p].path_source # None
    /\ Delegate(p, "read_packages", "none")
    /\ UNCHANGED <<remote, db, checkout, lock, gs, frame, ok_updates>>

read_packages(p) ==
    \/ read_packages_update(p)
    \/ read_packages_reader(p)

\* ---------------------------------------------------------- specification

Next ==
    \/ \E i \in Idents : RemotePush(i)
    \/ \E p \in Procs : update(p)
    \/ \E p \in Procs : read_packages(p)
    \/ \E p \in Procs, dep \in Dependencies : query(p, dep)
    \/ \E p \in Procs, id \in PackageIds : download(p, id)
    \/ \E p \in Procs, pkg \in Packages : fingerprint(p, pkg)

Spec == Init /\ [][Next]_vars

\* ------------------------------------------------- identities of spellings
\* GitSource::new over a bounded set of URLs: the first process is
\* constructed from a URL of the set, the others from the same URL or from
\* another spelling of it.

\* A path is "/" followed by at most MaxPieces pieces.
MaxPieces == 4

PathPieces == {<<"/">>, <<"R">>, DotGit}

RECURSIVE PathsOf(_)
PathsOf(n) ==
    IF n = 0 THEN {<<"/">>}
    ELSE LET shorter == PathsOf(n - 1)
         IN  shorter \cup {path \o piece : path \in shorter,
                                            piece \in PathPieces}

Paths == PathsOf(MaxPieces)

\* Url::parse gives a URL of a special scheme (https) the path "/" at least;
\* a URL of another scheme (git) with a host can have the empty path.
is_special(scheme) == scheme = "https"

Schemes == {"https", "git"}

Hosts == {"github.com", "example.com"}

Urls ==
    {[scheme |-> sc, host |-> h, path |-> path] :
        sc \in Schemes, h \in Hosts, path \in Paths}
    \cup {[scheme |-> "git", host |-> h, path |-> <<>>] : h \in Hosts}

url_of(p) == gs[p].source_id.url

First == CHOOSE p \in Procs : \A q \in Procs : p <= q

UrlInit ==
    /\ remote = [i \in Idents |-> 1]
    /\ db = [d \in DbPaths |-> 0]
    /\ checkout = [c \in CheckoutPaths |-> NoCheckout]
    /\ lock = {}
    /\ \E u \in Urls :
         gs = [p \in Procs |-> GitSource_new(SourceId(u, Branch(Main), None))]
    /\ pc = [p \in Procs |-> "idle"]
    /\ frame = [p \in Procs |-> NoFrame]
    /\ ret = NoRet
    /\ ok_updates = [p \in Procs |-> FALSE]

\* GitSource::new for process p, from the URL u.
new(p, u) ==
    /\ gs' = [gs EXCEPT ![p] = GitSource_new(SourceId(u, Branch(Main), None))]
    /\ UNCHANGED <<remote, db, checkout, lock, pc, frame, ret, ok_updates>>

\* The URL with ".git" appended to its final path segment.
with_dot_git(u) == [u EXCEPT !.path = @ \o DotGit]

\* The URL with a "/" appended.
with_slash(u) == [u EXCEPT !.path = @ \o <<"/">>]

\* The URL with another scheme.
with_scheme(u, scheme) ==
    [u EXCEPT !.scheme = scheme,
              !.path = IF is_special(scheme) /\ u.path = <<>>
                       THEN <<"/">> ELSE u.path]

to_uppercase_char(c) ==
    CASE c = "r" -> "R"
      [] c = "a" -> "A"
      [] c = "g" -> "G"
      [] c = "i" -> "I"
      [] c = "t" -> "T"
      [] OTHER -> c

flip_case(c) ==
    IF to_lowercase_char(c) # c THEN to_lowercase_char(c)
    ELSE to_uppercase_char(c)

\* The URL with the case of the letters at the positions `at` of its path
\* changed.
with_case_flipped(u, at) ==
    [u EXCEPT !.path = [i \in 1..Len(u.path) |->
                           IF i \in at THEN flip_case(u.path[i])
                           ELSE u.path[i]]]

\* Process p is constructed from the canonical form of the first URL.
new_canonical(p) ==
    /\ p # First
    /\ new(p, canonicalize_url(url_of(First)))

\* Process p is constructed from the first URL with ".git" appended.
new_dot_git(p) ==
    /\ p # First
    /\ last_segment(url_of(First).path) # <<>>
    /\ new(p, with_dot_git(url_of(First)))

\* Process p is constructed from the first URL with a "/" appended.
new_trailing_slash(p) ==
    /\ p # First
    /\ url_of(First).path # <<>>
    /\ ~ends_with(url_of(First).path, <<"/">>)
    /\ new(p, with_slash(url_of(First)))

\* Process p is constructed from the first URL, one of github.com, with the
\* letters at the positions i and j of its path in the other case.
new_other_case(p, i, j) ==
    /\ p # First
    /\ url_of(First).host = "github.com"
    /\ i <= j
    /\ j <= Len(url_of(First).path)
    /\ \A k \in {i, j} : flip_case(url_of(First).path[k]) # url_of(First).path[k]
    /\ new(p, with_case_flipped(url_of(First), {i, j}))

\* Process p is constructed from the first URL under another scheme.
new_other_scheme(p, scheme) ==
    /\ p # First
    /\ scheme # url_of(First).scheme
    /\ new(p, with_scheme(url_of(First), scheme))

MaxPathLen == 1 + MaxPieces * Len(DotGit)

UrlNext ==
    \/ \E p \in Procs : new_canonical(p)
    \/ \E p \in Procs : new_dot_git(p)
    \/ \E p \in Procs : new_trailing_slash(p)
    \/ \E p \in Procs, i, j \in 1..MaxPathLen : new_other_case(p, i, j)
    \/ \E p \in Procs, scheme \in Schemes : new_other_scheme(p, scheme)

UrlSpec == UrlInit /\ [][UrlNext]_vars

\* ----------------------------------------------------------------- claims

\* The positions of update() between lock_git() and its return.
LockedPcs == {"rev_for", "checkout", "repo_rev_for", "db_at", "copy_to", "bind"}

\* The positions of update() after the decision to update or not.
DecidedPcs == LockedPcs \ {"rev_for"}

precise_of(p) == gs[p].source_id.precise

C2_PreciseRevisionNeverRefetched ==
    \A p \in Procs :
        precise_of(p) # None =>
            /\ (\E q \in Procs : /\ ok_updates[q]
                                 /\ gs[q].ident = gs[p].ident
                                 /\ gs[q].reference = gs[p].reference)
               => /\ pc[p] \in DecidedPcs =>
                      /\ ~frame[p].should_update
                      /\ ~frame[p].fetched
                      /\ pc[p] \in {"db_at", "copy_to", "bind"}
                  /\ pc[p] \in {"copy_to", "bind"} =>
                      to_string(frame[p].rev[1]) = precise_of(p)[1]
            /\ gs[p].rev # None =>
                   to_string(gs[p].rev[1]) = precise_of(p)[1]

\* A source with a precise revision, updated successfully before, is about
\* to copy in a later update() without having fetched.
C2_Witness ==
    \E p \in Procs :
        /\ precise_of(p) # None
        /\ ok_updates[p]
        /\ pc[p] = "copy_to"
        /\ ~frame[p].fetched

\* At most one process holds the lock and is past lock_git().
C3_Inv ==
    /\ Cardinality(lock) <= 1
    /\ Cardinality({p \in Procs : pc[p] \in LockedPcs}) <= 1
    /\ \A p \in Procs : pc[p] \in LockedPcs => p \in lock

\* What a step may do to the shared directories, to the locals of an
\* update() and to the lock.
C3_Step ==
    /\ (db' # db \/ checkout' # checkout) =>
           \E p \in Procs : lock = {p} /\ pc[p] \in LockedPcs /\ pc'[p] # pc[p]
    /\ \A p \in Procs :
           /\ frame'[p] # frame[p] => p \in lock /\ pc[p] \in LockedPcs
           /\ (p \in lock /\ p \notin lock') =>
                  /\ pc'[p] = "idle"
                  /\ ret'.proc = p /\ ret'.op = "update"
                  /\ ret'.outcome \in {"Ok", "PackageReaderFailure"} =>
                         /\ pc[p] = "bind"
                         /\ gs'[p].path_source # None
                         /\ gs'[p].path_source[1].path = checkout_path(gs[p])
                         /\ checkout'[checkout_path(gs[p])] =
                                [rev |-> gs'[p].rev[1], complete |-> TRUE]

\* C3: at most one process is between lock_git() and the return of its
\* update(), and it holds the lock there; the databases, the checkouts and
\* the locals of an update() (its resolutions) change only in a step of the
\* process that holds the lock; the lock is given up only in the step that
\* returns from update(), which on the path without error is the one that
\* follows the completed copy and binds the package reader.
C3_MutualExclusion == []C3_Inv /\ [][C3_Step]_vars

\* One process is about to copy under the lock while the other waits in
\* lock_git().
C3_Witness ==
    \E p, q \in Procs :
        /\ p # q
        /\ pc[p] = "copy_to"
        /\ lock = {p}
        /\ pc[q] = "lock_git"

\* C4: while no update() of a process has returned Ok, its GitSource has
\* neither a resolved revision nor a package reader, also after update()
\* calls that returned an error.
C4_UninitializedUntilSuccess ==
    \A p \in Procs :
        ~ok_updates[p] => gs[p].rev = None /\ gs[p].path_source = None

\* C5: query() and download() on a GitSource without a package reader, and
\* fingerprint() on one without a resolved revision, end in a panic: no
\* result and no error value is returned.
C5_PreconditionViolationPanics ==
    /\ ( /\ ret.op \in {"query", "download"}
         /\ gs[ret.proc].path_source = None )
       => ret.outcome = "panic" /\ pc[ret.proc] = "panicked"
    /\ ( /\ ret.op = "fingerprint"
         /\ gs[ret.proc].rev = None )
       => ret.outcome = "panic" /\ pc[ret.proc] = "panicked"
    /\ \A p \in Procs :
           pc[p] = "panicked" =>
               gs[p].path_source = None \/ gs[p].rev = None

\* query() was called on a GitSource never updated, and panicked.
C5_Witness ==
    /\ ret.op = "query"
    /\ ret.outcome = "panic"
    /\ ~ok_updates[ret.proc]

\* C6: fingerprint() returns the string of the revision the GitSource
\* stores, for every package, whatever the checkout directory and the
\* database hold by then.
C6_FingerprintIsStoredRevision ==
    (ret.op = "fingerprint" /\ ret.outcome # "panic") =>
        /\ ret.outcome = "Ok"
        /\ gs[ret.proc].rev # None
        /\ ret.val = Some(to_string(gs[ret.proc].rev[1]))

\* fingerprint() returned after another update() had put another revision
\* into the checkout directory and the database.
C6_Witness ==
    /\ ret.op = "fingerprint"
    /\ ret.outcome = "Ok"
    /\ ret.arg = "pkgB"
    /\ checkout[checkout_path(gs[ret.proc])].rev # gs[ret.proc].rev[1]
    /\ db[db_path(gs[ret.proc])] # gs[ret.proc].rev[1]

\* A GitSource that stores a revision and a package reader reads a checkout
\* directory that is a complete copy of that revision.
ReaderMatchesCheckout(p) ==
    (gs[p].rev # None /\ gs[p].path_source # None) =>
        checkout[gs[p].path_source[1].path] =
            [rev |-> gs[p].rev[1], complete |-> TRUE]

\* A step in which an update() returns an error.
UpdateFails ==
    \E p \in Procs :
        /\ pc[p] # "idle"
        /\ pc'[p] = "idle"
        /\ ret'.proc = p
        /\ ret'.outcome # "Ok"

\* C7: an update() that fails leaves no GitSource with a stored revision
\* and a package reader over a checkout directory that is not a complete
\* copy of that revision: where every reader matched its checkout before
\* the failing step, it does so after.
C7_FailedUpdateKeepsCheckoutValid ==
    [][ (UpdateFails /\ \A p \in Procs : ReaderMatchesCheckout(p))
        => \A p \in Procs : ReaderMatchesCheckout(p)' ]_vars

\* A step of update() by the process that holds the lock: each call of a
\* collaborator returns.
LockedStep(p) == pc[p] \in LockedPcs /\ update(p)

\* The sources of the fair specification: the branch without a precise
\* revision and the branch with a precise revision the remote gets only
\* when pushed to. Between them they take every path through update(); the
\* lock does not look at the source.
LiveSources == {1, 3}

\* The processes are scheduled fairly: the holder of the lock goes on, and
\* a process that waits in lock_git() gets the lock when it is free again
\* and again.
LiveSpec ==
    /\ InitWith(LiveSources)
    /\ [][Next]_vars
    /\ \A p \in Procs : WF_vars(LockedStep(p)) /\ SF_vars(lock_git(p))

\* The lock is held only between lock_git() and the return of update().
C8_HeldOnlyInsideUpdate ==
    \A p \in Procs : p \in lock => pc[p] \in LockedPcs

\* Leaving update() gives the lock up.
C8_ReleasedOnExit ==
    \A p \in Procs :
        (pc[p] \in LockedPcs /\ pc'[p] \notin LockedPcs) =>
            /\ pc'[p] = "idle"
            /\ p \in lock
            /\ p \notin lock'

C9_Step ==
    \A p \in Procs :
        (pc[p] = "lock_git" /\ pc'[p] = "idle") =>
            /\ ret'.proc = p
            /\ ret'.outcome = "LockUnavailable"
            /\ ~ret'.fetched
            /\ UNCHANGED <<remote, db, checkout, gs, lock, ok_updates>>

\* C9: when lock_git() fails, update() returns that error without having
\* gone to the remote; the databases, the checkouts, the remote and every
\* GitSource (its revision and its package reader) are as before the call.
C9_LockFailureCommitsNothing == [][C9_Step]_vars

\* lock_git() failed for a GitSource that an earlier update() had bound.
C9_Witness ==
    /\ ret.op = "update"
    /\ ret.outcome = "LockUnavailable"
    /\ gs[ret.proc].rev # None
    /\ gs[ret.proc].path_source # None

\* The revision an updating update() goes on with.
C10_Inv ==
    \A p \in Procs :
        frame[p].should_update =>
            /\ pc[p] \in {"repo_rev_for", "copy_to", "bind"} => frame[p].fetched
            /\ pc[p] \in {"copy_to", "bind"} =>
                   /\ frame[p].rev # None
                   /\ frame[p].rev =
                          rev_for(db[db_path(gs[p])], gs[p].reference)

\* The fetch, the failures of the fetching branch, and the copy.
C10_Step ==
    \A p \in Procs :
        /\ (pc[p] = "checkout" /\ pc'[p] = "repo_rev_for") =>
               db'[db_path(gs[p])] = remote[gs[p].ident]
        /\ (pc[p] \in {"checkout", "repo_rev_for"} /\ pc'[p] = "idle") =>
               /\ ret'.proc = p
               /\ ret'.outcome \in {"ShellFailure", "RemoteAccessFailure",
                                    "ResolutionFailure"}
               /\ UNCHANGED <<checkout, gs>>
        /\ (pc[p] = "copy_to" /\ pc'[p] = "bind") =>
               checkout'[checkout_path(gs[p])].rev = frame[p].rev[1]

\* C10: an update() that decided to update fetches before it resolves
\* again, and copies the revision resolved against the fetched database,
\* never the one resolved before the fetch; when the fetch or the second
\* resolution fails it returns that error with the checkouts and every
\* GitSource unchanged.
C10_FetchThenResolve == []C10_Inv /\ [][C10_Step]_vars

\* The database resolved the branch before the fetch, the fetch brought a
\* newer revision, and update() is about to copy the newer one.
C10_Witness ==
    \E p \in Procs :
        /\ pc[p] = "copy_to"
        /\ frame[p].should_update
        /\ frame[p].actual_rev # None
        /\ frame[p].actual_rev # frame[p].rev

\* The second resolution failed after a fetch.
C10_WitnessResolutionFailure ==
    /\ ret.op = "update"
    /\ ret.outcome = "ResolutionFailure"
    /\ ret.fetched

\* The Reference the Reference Model builds from a source id.
reference_of(source_id) ==
    IF source_id.precise # None
    THEN Rev(source_id.precise[1])
    ELSE source_id.git_reference

C11_Inv ==
    \A p \in Procs :
        /\ gs[p].source_id \in SourceIds
        /\ gs[p].reference = reference_of(gs[p].source_id)

C11_Step ==
    \A p \in Procs :
        /\ gs'[p].reference = gs[p].reference
        /\ gs'[p].source_id = gs[p].source_id

\* C11: the reference of every GitSource is Rev(precise) when its source id
\* carries a precise revision, whatever its symbolic reference, and the
\* symbolic reference otherwise; no step of any update() (or of any other
\* operation) changes the reference or the source id it was built from.
C11_ReferenceFixedAtConstruction == []C11_Inv /\ [][C11_Step]_vars

\* A source constructed with branch main and a precise revision has updated
\* successfully and is in an update() again, past the decision; its
\* reference is the explicit revision.
C11_Witness ==
    \E p \in Procs :
        /\ precise_of(p) # None
        /\ gs[p].source_id.git_reference = Branch(Main)
        /\ gs[p].reference = Rev(precise_of(p)[1])
        /\ ok_updates[p]
        /\ pc[p] \in DecidedPcs

\* C12: canonicalize_url is idempotent: a GitSource constructed from the
\* canonical form of a URL hashes the same canonical URL as the GitSource
\* constructed from the URL itself, and canonicalizing the canonical form
\* again changes nothing.
C12_CanonicalizeIdempotent ==
    \A p \in Procs :
        LET u == url_of(First)
        IN  url_of(p) = canonicalize_url(u) =>
                /\ canonicalize_url(url_of(p)) = url_of(p)
                /\ gs[p].ident = gs[First].ident

\* C13: a GitSource constructed from a URL with ".git" appended to its
\* non-empty final path segment has the same ident as the GitSource
\* constructed from the URL itself, on any host.
C13_DotGitSuffixSameIdent ==
    \A p \in Procs :
        LET u == url_of(First)
        IN  ( /\ last_segment(u.path) # <<>>
              /\ url_of(p) = with_dot_git(u) )
            => gs[p].ident = gs[First].ident

\* C14: a GitSource constructed from a URL with one "/" appended to its
\* path (non-empty and not ending in "/") has the same ident as the
\* GitSource constructed from the URL itself, on any host.
C14_TrailingSlashSameIdent ==
    \A p \in Procs :
        LET u == url_of(First)
        IN  ( /\ u.path # <<>>
              /\ ~ends_with(u.path, <<"/">>)
              /\ url_of(p) = with_slash(u) )
            => gs[p].ident = gs[First].ident

\* A URL of another host than github.com ending in a segment that is kept
\* by canonicalize_url (one without ".git"), and its spelling with a "/".
C14_Witness ==
    \E p \in Procs :
        /\ url_of(First).host # "github.com"
        /\ Len(url_of(First).path) > 1
        /\ ~ends_with(url_of(First).path, <<"/">>)
        /\ ~ends_with(url_of(First).path, DotGit)
        /\ url_of(p) = with_slash(url_of(First))
        /\ gs[p].ident = gs[First].ident

\* Two URLs that are equal except for the case of letters in their paths.
equal_except_case(u, v) ==
    /\ u.scheme = v.scheme
    /\ u.host = v.host
    /\ Len(u.path) = Len(v.path)
    /\ \A i \in 1..Len(u.path) :
          v.path[i] \in {u.path[i], flip_case(u.path[i])}

\* C15: two GitSources constructed from github.com URLs that are equal
\* except for the case of letters in their paths have the same ident.
C15_GithubCaseSameIdent ==
    \A p, q \in Procs :
        ( /\ url_of(p).host = "github.com"
          /\ equal_except_case(url_of(p), url_of(q)) )
        => gs[p].ident = gs[q].ident

\* Two github.com URLs that differ in the case of a letter of a path segment
\* and of a letter of the ".git" suffix.
C15_Witness ==
    \E p \in Procs :
        LET u == url_of(First)
            v == url_of(p)
        IN  /\ u.host = "github.com"
            /\ ends_with(u.path, DotGit)
            /\ equal_except_case(u, v)
            /\ \E i \in 1..Len(u.path) : u.path[i] = "R" /\ v.path[i] = "r"
            /\ v.path[Len(v.path)] = "T"
            /\ gs[p].ident = gs[First].ident

\* C16: two GitSources constructed from github.com URLs that are equal
\* except for their scheme have the same ident.
C16_GithubSchemeSameIdent ==
    \A p \in Procs :
        LET u == url_of(First)
        IN  ( /\ u.host = "github.com"
              /\ \E scheme \in Schemes : url_of(p) = with_scheme(u, scheme) )
            => gs[p].ident = gs[First].ident

\* The same github.com repository under https and under git.
C16_Witness ==
    \E p \in Procs :
        /\ url_of(First).host = "github.com"
        /\ url_of(First).scheme = "https"
        /\ Len(url_of(First).path) > 1
        /\ url_of(p) = with_scheme(url_of(First), "git")
        /\ gs[p].ident = gs[First].ident

starts_with(s, prefix) ==
    /\ Len(s) >= Len(prefix)
    /\ SubSeq(s, 1, Len(prefix)) = prefix

\* C17: the ident of a GitSource is its tag, "-" and the short hash of the
\* canonical URL, where the tag is the last path segment of the canonical
\* URL when that is non-empty and "_empty" when the canonical URL has no
\* path segments or an empty last segment.
C17_IdentIsTagDashHash ==
    \A p \in Procs :
        LET canon  == canonicalize_url(url_of(p))
            seg    == last_segment(canon.path)
            prefix == IF seg = <<>>
                      THEN <<"_", "e", "m", "p", "t", "y", "-">>
                      ELSE seg \o <<"-">>
        IN  /\ starts_with(gs[p].ident, prefix)
            /\ SubSeq(gs[p].ident, Len(prefix) + 1, Len(gs[p].ident))
                   = short_hash(canon)

\* One GitSource of a URL without path segments and one of a URL whose
\* canonical form ends in an empty segment, both tagged "_empty".
C17_Witness ==
    /\ url_of(First).path = <<>>
    /\ starts_with(gs[First].ident, <<"_", "e", "m", "p", "t", "y", "-">>)
    /\ \E p \in Procs :
          /\ url_of(p).path = <<"/">>
          /\ starts_with(gs[p].ident, <<"_", "e", "m", "p", "t", "y", "-">>)

\* Process p is between operations, its update() has succeeded and its
\* checkout location holds the complete copy of its resolved revision.
UsingCheckout(p) ==
    /\ pc[p] = "idle"
    /\ ok_updates[p]
    /\ gs[p].rev # None
    /\ checkout[checkout_path(gs[p])] =
           [rev |-> gs[p].rev[1], complete |-> TRUE]

\* C18: while a process whose update() succeeded with revision r stays
\* between its operations or runs query(), download() or fingerprint(), no
\* step of another process switches its checkout location to another
\* revision.
C18_CheckoutKeptWhileInUse ==
    [][\A p \in Procs :
          (UsingCheckout(p) /\ pc'[p] = "idle")
          => checkout'[checkout_path(gs[p])].rev = gs[p].rev[1]
      ]_vars

\* The directory the package reader of process p is bound to: the
\* checkout_path its update() copied to.
checkout_dir(p) == gs[p].path_source[1].path

\* C19: two GitSources with the same ident that have both been through
\* update() use the same database path, and are bound to the same checkout
\* directory exactly when they resolve the same Reference (the one built by
\* new(): Rev(precise), or the symbolic reference with its variant and
\* name).
C19_CheckoutScopedByReference ==
    \A p, q \in Procs :
        ( /\ gs[p].path_source # None
          /\ gs[q].path_source # None
          /\ gs[p].ident = gs[q].ident )
        => /\ db_path(gs[p]) = db_path(gs[q])
           /\ (gs[p].reference = gs[q].reference)
                  <=> (checkout_dir(p) = checkout_dir(q))

\* C20: between the operations of a GitSource, and at every step inside
\* them, the resolved revision is present exactly when the package reader
\* is: fingerprint() finds its revision in the states where query(),
\* download() and read_packages() find their reader.
C20_RevisionIffReader ==
    \A p \in Procs : (gs[p].rev = None) <=> (gs[p].path_source = None)

\* read_packages() has returned the reader's result for a GitSource with
\* both fields present, and another GitSource that no update() has bound
\* has both absent and has panicked in query(), download() or fingerprint().
C20_Witness ==
    /\ ret.op = "read_packages"
    /\ pc[ret.proc] = "idle"
    /\ gs[ret.proc].rev # None
    /\ gs[ret.proc].path_source # None
    /\ \E q \in Procs : q # ret.proc /\ pc[q] = "panicked"
                          /\ gs[q].rev = None /\ gs[q].path_source = None

====
